---- MODULE Spec2Model ----
(***************************************************************************)
(* Model of src/src/fingerprint_to_queries.py: the silence-based segmenter *)
(* (split_on_silence), the three-tier identity resolver                    *)
(* (fingerprint_and_lookup, read_tags, make_query_from_metadata) and the   *)
(* orchestrator process_file with its temporary files and output file.     *)
(*                                                                         *)
(* Time is in milliseconds.  An audio buffer is a sequence of runs, each   *)
(* run being loud or silent for a number of milliseconds.                  *)
(***************************************************************************)
EXTENDS Integers, Sequences, FiniteSets, TLC

VARIABLES
    pc,                 \* position inside process_file
    audio,              \* the loaded buffer: a sequence of runs
    min_silence_len,    \* parameter of process_file
    keep_silence,       \* parameter of process_file
    acoustid_key,       \* parameter of process_file (a Python value)
    non_silent_ranges,  \* local of split_on_silence
    segments,           \* list of segments, each a range <<start, end>>
    i,                  \* 0-based index of the segment loop
    queries,            \* list of queries (Python values)
    temp_files,         \* list of temporary file names
    disk,               \* temporary files that exist on disk
    unlinked,           \* names for which os.unlink has been called
    j,                  \* position of the cleanup loop in temp_files
    exc,                \* stage whose exception is propagating, or "none"
    log,                \* per segment: what the resolver did
    outFile,            \* content of the output file
    ret,                \* value returned by process_file
    fnPc,               \* position of the application of a pure function
    fnArg,              \* the argument the function is applied to
    fnRes,              \* its result
    queriesB,           \* the queries of a second run of the segment loop
    logB,               \* what the resolver did in the second run
    kDiff,              \* the segment whose tiers fail in the second run
    ppc,                \* position inside create_playlist_and_add_tracks
    song_queries,       \* its parameter: a list of strings
    qi,                 \* position of its loop in song_queries
    track_uris,         \* its list of collected URIs
    createCalls,        \* the calls of sp.user_playlist_create
    searchCalls,        \* the calls of sp.search
    addCalls,           \* the calls of sp.playlist_add_items
    spc,                \* position inside main of the ShazamKit wrapper
    senv,               \* platform, files and arguments of that run
    schecks,            \* the conditions main has examined, in order
    sbuilds,            \* the calls of build_shazam_cli, by outcome
    sruns,              \* the calls of run_shazam_cli, by outcome
    slines,             \* the lines run_shazam_cli returned
    sOut,               \* content of the wrapper's output file
    rc                  \* the code main returned, -1 while it has not

\* the variables of process_file
pipeVars ==
    << pc, audio, min_silence_len, keep_silence, acoustid_key,
       non_silent_ranges, segments, i, queries, temp_files, disk,
       unlinked, j, exc, log, outFile, ret >>

fnVars ==
    << fnPc, fnArg, fnRes >>

pairVars ==
    << queriesB, logB, kDiff >>

\* the variables of create_playlist_and_add_tracks
plVars ==
    << ppc, song_queries, qi, track_uris, createCalls, searchCalls,
       addCalls >>

\* the variables of the ShazamKit wrapper
shVars ==
    << spc, senv, schecks, sbuilds, sruns, slines, sOut, rc >>

\* everything but the variables of process_file
extVars ==
    << fnVars, pairVars, plVars, shVars >>

vars ==
    << pipeVars, extVars >>

-----------------------------------------------------------------------------
(* Bounds of the model *)

MaxRuns ==
    3

\* the largest segment index make_query_from_metadata is applied to
MaxIndex ==
    11

\* the largest number of results in a lookup response
MaxResults ==
    2

\* the largest number of queries given to create_playlist_and_add_tracks
MaxQueries ==
    3

\* the largest number of characters the Shazam CLI prints
MaxStdout ==
    4

-----------------------------------------------------------------------------
(* Defaults of process_file *)

DefaultMinSilenceLen ==
    1200

DefaultKeepSilence ==
    300

-----------------------------------------------------------------------------
(* Python values.  A scalar is a record [t, v] with v always a string.     *)

PyNone ==
    [t |-> "none", v |-> ""]

PyStr(s) ==
    [t |-> "str", v |-> s]

PyInt(s) ==
    [t |-> "int", v |-> s]

\* bool(x) for a scalar
Truthy(x) ==
    \/ x.t = "str" /\ x.v # ""
    \/ x.t = "int" /\ x.v # "0"

\* str(x) / "{x}" in an f-string, for a scalar
Format(x) ==
    IF x.t = "none" THEN "None" ELSE x.v

Digit(n) ==
    CASE n = 0 -> "0" [] n = 1 -> "1" [] n = 2 -> "2" [] n = 3 -> "3"
      [] n = 4 -> "4" [] n = 5 -> "5" [] n = 6 -> "6" [] n = 7 -> "7"
      [] n = 8 -> "8" [] n = 9 -> "9"

RECURSIVE IntToStr(_)
\* "{n}" in an f-string, for a natural number
IntToStr(n) ==
    IF n < 10 THEN Digit(n) ELSE IntToStr(n \div 10) \o Digit(n % 10)

Max(a, b) ==
    IF a >= b THEN a ELSE b

Min(a, b) ==
    IF a <= b THEN a ELSE b

-----------------------------------------------------------------------------
(* Audio buffers and silence detection *)

RECURSIVE BufLen(_)
\* len(audio)
BufLen(buf) ==
    IF buf = <<>> THEN 0 ELSE Head(buf).len + BufLen(Tail(buf))

RECURSIVE SilentStretches(_, _, _)
\* The maximal silent stretches of buf as ranges <<start, end>>; pos is the
\* time at which buf starts and cur the start of a silent stretch that is
\* still open (-1 when none is).
SilentStretches(buf, pos, cur) ==
    IF buf = <<>>
    THEN IF cur >= 0 THEN << <<cur, pos>> >> ELSE <<>>
    ELSE LET r == Head(buf) IN
         IF r.loud
         THEN (IF cur >= 0 THEN << <<cur, pos>> >> ELSE <<>>)
                  \o SilentStretches(Tail(buf), pos + r.len, -1)
         ELSE SilentStretches(Tail(buf), pos + r.len,
                              IF cur >= 0 THEN cur ELSE pos)

\* silence.detect_silence: the silent stretches of at least min_len ms
detect_silence(buf, min_len) ==
    SelectSeq(SilentStretches(buf, 0, -1), LAMBDA r : r[2] - r[1] >= min_len)

RECURSIVE Complement(_, _)
\* the loop of detect_nonsilent: the spans before each silent range
Complement(silent, prev_end) ==
    IF silent = <<>> THEN <<>>
    ELSE << <<prev_end, Head(silent)[1]>> >>
             \o Complement(Tail(silent), Head(silent)[2])

\* silence.detect_nonsilent(audio, min_silence_len, silence_thresh)
detect_nonsilent(buf, min_len) ==
    LET silent == detect_silence(buf, min_len)
        len_seg == BufLen(buf)
        last == silent[Len(silent)]
        spans == Complement(silent, 0)
                   \o (IF last[2] # len_seg
                       THEN << <<last[2], len_seg>> >> ELSE <<>>)
    IN  IF silent = <<>> THEN << <<0, len_seg>> >>
        ELSE IF silent[1][1] = 0 /\ silent[1][2] = len_seg THEN <<>>
        ELSE IF spans[1] = <<0, 0>> THEN Tail(spans) ELSE spans

\* PadRange without the clamp to the buffer bounds
PadRangeUnclamped(buf, span, keep) ==
    << span[1] - keep, span[2] + keep >>

\* one iteration of the loop of split_on_silence: the padded, clamped range
PadRange(buf, span, keep) ==
    << Max(0, span[1] - keep), Min(BufLen(buf), span[2] + keep) >>

-----------------------------------------------------------------------------
(* The identity resolver *)

\* Optional[Tuple[str, str]]: some = FALSE is None
NoMeta ==
    [some |-> FALSE, title |-> PyNone, artist |-> PyNone]

Meta(title, artist) ==
    [some |-> TRUE, title |-> title, artist |-> artist]

\* A lookup result that is not a dict (r.get raises AttributeError)
NonDict ==
    [isdict |-> FALSE, recordings |-> <<>>]

\* results[1] if isinstance(results, tuple) and len(results) > 1 else results
\* A response is [shape, arity, items]: a bare list of results, a tuple of
\* arity elements whose second element is the list, or None.
Candidates(results) ==
    CASE results.shape = "tuple" /\ results.arity > 1 ->
             [iterable |-> TRUE, items |-> results.items]
      [] results.shape = "tuple" /\ results.arity = 1 ->
             [iterable |-> TRUE, items |-> << NonDict >>]
      [] results.shape = "tuple" /\ results.arity = 0 ->
             [iterable |-> TRUE, items |-> <<>>]
      [] results.shape = "list" ->
             [iterable |-> TRUE, items |-> results.items]
      [] OTHER ->
             [iterable |-> FALSE, items |-> <<>>]

RECURSIVE ScanFirstRecorded(_)
\* the scan ends at the first result that has a recording, titled or not
ScanFirstRecorded(items) ==
    IF items = <<>> THEN NoMeta
    ELSE LET r == Head(items) IN
         IF ~r.isdict THEN NoMeta
         ELSE IF r.recordings = <<>> THEN ScanFirstRecorded(Tail(items))
         ELSE LET rec == r.recordings[1]
                  artist == IF rec.artists # <<>> THEN rec.artists[1]
                            ELSE PyNone
              IN  IF ~rec.artistsOk THEN NoMeta
                  ELSE IF Truthy(rec.title)
                  THEN Meta(rec.title,
                            IF Truthy(artist) THEN artist ELSE PyStr(""))
                  ELSE NoMeta

RECURSIVE ScanCandidates(_)
\* for r in candidates: ... ; an exception inside the loop ends it with None
ScanCandidates(items) ==
    IF items = <<>> THEN NoMeta
    ELSE LET r == Head(items) IN
         IF ~r.isdict THEN NoMeta
         ELSE IF r.recordings = <<>> THEN ScanCandidates(Tail(items))
         ELSE LET rec == r.recordings[1]
                  artist == IF rec.artists # <<>> THEN rec.artists[1]
                            ELSE PyNone
              IN  IF ~rec.artistsOk THEN NoMeta
                  ELSE IF Truthy(rec.title)
                  THEN Meta(rec.title,
                            IF Truthy(artist) THEN artist ELSE PyStr(""))
                  ELSE ScanCandidates(Tail(items))

\* fingerprint_and_lookup(segment_path, acoustid_key) in the environment env:
\* env.lib is whether the acoustid library was imported, env.fpRaises and
\* env.lookupRaises whether the two calls raise, env.response what the
\* service answers.  The result also tells which calls were made.
fingerprint_and_lookup(env, key) ==
    IF ~env.lib \/ key.t = "none"
    THEN [meta |-> NoMeta, fingerprinted |-> FALSE, lookedUp |-> FALSE]
    ELSE IF env.fpRaises
    THEN [meta |-> NoMeta, fingerprinted |-> TRUE, lookedUp |-> FALSE]
    ELSE IF env.lookupRaises
    THEN [meta |-> NoMeta, fingerprinted |-> TRUE, lookedUp |-> TRUE]
    ELSE LET c == Candidates(env.response) IN
         [meta |-> IF c.iterable THEN ScanCandidates(c.items) ELSE NoMeta,
          fingerprinted |-> TRUE, lookedUp |-> TRUE]

\* Values stored in a tag container: absent, a string <<s>> or a list
TagAbsent ==
    [t |-> "absent", v |-> <<>>]

TagStr(s) ==
    [t |-> "str", v |-> <<s>>]

TagList(l) ==
    [t |-> "list", v |-> l]

TagTruthy(x) ==
    \/ x.t = "str" /\ x.v[1] # ""
    \/ x.t = "list" /\ x.v # <<>>

RECURSIVE ReprItems(_)
ReprItems(l) ==
    IF l = <<>> THEN ""
    ELSE "'" \o Head(l) \o "'"
           \o (IF Tail(l) = <<>> THEN "" ELSE ", " \o ReprItems(Tail(l)))

\* str(x) of a tag value
TagFormat(x) ==
    CASE x.t = "str" -> x.v[1]
      [] x.t = "list" -> "[" \o ReprItems(x.v) \o "]"
      [] OTHER -> "None"

\* a or b
TagOr(a, b) ==
    IF TagTruthy(a) THEN a ELSE b

\* read_tags(path) in the environment env: env.lib is whether mutagen was
\* imported, env.opens what MutagenFile(path) does and env.tags the tags.
read_tags(env) ==
    IF ~env.lib THEN NoMeta
    ELSE IF env.opens # "ok" THEN NoMeta
    ELSE LET tags == env.tags
             hasTags == \E key \in DOMAIN tags : tags[key].t # "absent"
             title0 == IF tags.TIT2.t # "absent"
                       THEN TagStr(TagFormat(tags.TIT2)) ELSE TagAbsent
             artist0 == IF tags.TPE1.t # "absent"
                        THEN TagStr(TagFormat(tags.TPE1)) ELSE TagAbsent
             title1 == IF ~TagTruthy(title0)
                       THEN TagOr(tags.title, tags.TIT2) ELSE title0
             artist1 == IF ~TagTruthy(artist0)
                        THEN TagOr(tags.artist, tags.TPE1) ELSE artist0
             raises == \/ title1.t = "list" /\ title1.v = <<>>
                       \/ artist1.t = "list" /\ artist1.v = <<>>
             title2 == IF title1.t = "list" THEN TagStr(title1.v[1])
                       ELSE title1
             artist2 == IF artist1.t = "list" THEN TagStr(artist1.v[1])
                        ELSE artist1
         IN  IF ~hasTags THEN NoMeta
             ELSE IF raises THEN NoMeta
             ELSE IF TagTruthy(title2)
             THEN Meta(PyStr(TagFormat(title2)),
                       IF TagTruthy(artist2) THEN PyStr(TagFormat(artist2))
                       ELSE PyStr(""))
             ELSE NoMeta

\* f"Unknown Track {index + 1}"
Placeholder(index) ==
    PyStr("Unknown Track " \o IntToStr(index + 1))

\* make_query_from_metadata with the placeholder numbered from 0
MakeQueryZeroBased(meta, index) ==
    IF meta.some /\ Truthy(meta.title)
    THEN IF Truthy(meta.artist)
         THEN PyStr(Format(meta.title) \o " - " \o Format(meta.artist))
         ELSE meta.title
    ELSE PyStr("Unknown Track " \o IntToStr(index))

\* make_query_from_metadata(meta, index)
make_query_from_metadata(meta, index) ==
    IF meta.some /\ Truthy(meta.title)
    THEN IF Truthy(meta.artist)
         THEN PyStr(Format(meta.title) \o " - " \o Format(meta.artist))
         ELSE meta.title
    ELSE Placeholder(index)

\* the fingerprint tier is entered for every key that is not None
KeyNotNone(key) ==
    key.t # "none"

\* "if acoustid_key:" in process_file
KeyConfigured(key) ==
    Truthy(key)

\* the tags are read for the first segment whatever the fingerprint gave
TagsConsultedAlways(fpMeta, index) ==
    index = 0

\* "if not meta: tag_meta = read_tags(input_path) if i == 0 else None":
\* whether read_tags is called
TagsConsulted(fpMeta, index) ==
    ~fpMeta.some /\ index = 0

\* the tags are read from the exported segment file
TagSourceSegment ==
    "tmp_path"

\* the argument of read_tags: "read_tags(input_path)"
TagSource ==
    "input_path"

\* what read_tags finds at a path when tagEnv is the environment of the
\* source file: segment.export(tmp_path, format="wav") writes no tags
TagsAt(path, tagEnv) ==
    IF path = "input_path" THEN tagEnv
    ELSE [lib |-> tagEnv.lib, opens |-> "ok",
          tags |-> [TIT2 |-> TagAbsent, TPE1 |-> TagAbsent,
                    title |-> TagAbsent, artist |-> TagAbsent]]

\* The body of the segment loop of process_file after the export: what the
\* resolver does for segment index under the key and the two environments.
\* tagPath is the path given to read_tags ("none" when it is not called) and
\* sourceTagged whether the source file carries tags read_tags would return.
ResolveSegment(key, index, fpEnv, tagEnv) ==
    LET fp == IF KeyConfigured(key) THEN fingerprint_and_lookup(fpEnv, key)
              ELSE [meta |-> NoMeta, fingerprinted |-> FALSE,
                    lookedUp |-> FALSE]
        tagsRead == TagsConsulted(fp.meta, index)
        tagPath == IF tagsRead THEN TagSource ELSE "none"
        tag_meta == IF tagsRead THEN read_tags(TagsAt(tagPath, tagEnv))
                    ELSE NoMeta
        meta == IF tag_meta.some THEN tag_meta ELSE fp.meta
    IN  [index |-> index,
         fingerprinted |-> fp.fingerprinted, lookedUp |-> fp.lookedUp,
         fpMeta |-> fp.meta, tagsRead |-> tagsRead, tagPath |-> tagPath,
         sourceTagged |-> read_tags(tagEnv).some, tagMeta |-> tag_meta,
         meta |-> meta, q |-> make_query_from_metadata(meta, index)]

-----------------------------------------------------------------------------
(* Inputs *)

Run(loud, len) ==
    [loud |-> loud, len |-> len]

\* run lengths in ms
RunLens ==
    {50, 1200, 1500, 4000, 4500}

Runs ==
    {Run(l, n) : l \in BOOLEAN, n \in RunLens}

\* the buffers of the segmenter specification: 1..MaxRuns runs
SegBuffers ==
    UNION {[1..n -> Runs] : n \in 1..MaxRuns}

MinSilenceChoices ==
    {50, 1200}

KeepSilenceChoices ==
    {0, 300, 700}

\* 10000 ms with a silent gap from 4000 to 5500
ScenarioA ==
    << Run(TRUE, 4000), Run(FALSE, 1500), Run(TRUE, 4500) >>

AllSilent ==
    << Run(FALSE, 4000) >>

ShortGap ==
    << Run(TRUE, 4000), Run(FALSE, 50), Run(TRUE, 1500) >>

NoSilence ==
    << Run(TRUE, 4500) >>

LeadIn ==
    << Run(FALSE, 50), Run(TRUE, 4000), Run(FALSE, 50) >>

ThreeTracks ==
    << Run(TRUE, 4000), Run(FALSE, 1500), Run(TRUE, 4000),
       Run(FALSE, 1200), Run(TRUE, 1500) >>

\* the inputs of the pipeline specification, with the default parameters
PipeBuffers ==
    {ScenarioA, AllSilent, ShortGap, ThreeTracks, NoSilence, LeadIn}

KeyChoices ==
    {PyNone, PyStr(""), PyStr("KEY")}

Rec(title, artists) ==
    [title |-> title, artistsOk |-> TRUE, artists |-> artists]

\* a recording whose "artists" is a string instead of a list
BadArtistsRec ==
    [title |-> PyStr("Imagine"), artistsOk |-> FALSE, artists |-> <<>>]

Result(recordings) ==
    [isdict |-> TRUE, recordings |-> recordings]

ListResponse(items) ==
    [shape |-> "list", arity |-> 0, items |-> items]

TupleResponse(arity, items) ==
    [shape |-> "tuple", arity |-> arity, items |-> items]

NoneResponse ==
    [shape |-> "none", arity |-> 0, items |-> <<>>]

Imagine ==
    Result(<< Rec(PyStr("Imagine"), << PyStr("John Lennon") >>) >>)

\* what the recognition service answers in the pipeline specification
PipeResponses ==
    { ListResponse(<<>>),
      ListResponse(<< Imagine >>),
      TupleResponse(2, << Imagine >>),
      TupleResponse(1, <<>>),
      NoneResponse,
      ListResponse(<< Result(<<>>), Result(<< Rec(PyStr("Yesterday"), <<>>) >>) >>),
      ListResponse(<< Result(<< Rec(PyInt("42"), <<>>) >>) >>),
      ListResponse(<< Result(<< Rec(PyInt("42"), << PyStr("John Lennon") >>) >>) >>),
      ListResponse(<< Result(<< Rec(PyStr(""), <<>>) >>) >>),
      ListResponse(<< Result(<< BadArtistsRec >>) >>),
      ListResponse(<< NonDict >>) }

FpEnv(lib, fpRaises, lookupRaises, response) ==
    [lib |-> lib, fpRaises |-> fpRaises, lookupRaises |-> lookupRaises,
     response |-> response]

PipeFpEnvs ==
    { FpEnv(FALSE, FALSE, FALSE, NoneResponse),
      FpEnv(TRUE, TRUE, FALSE, NoneResponse),
      FpEnv(TRUE, FALSE, TRUE, NoneResponse) }
      \cup { FpEnv(TRUE, FALSE, FALSE, r) : r \in PipeResponses }

Tags(TIT2, TPE1, title, artist) ==
    [TIT2 |-> TIT2, TPE1 |-> TPE1, title |-> title, artist |-> artist]

NoTags ==
    Tags(TagAbsent, TagAbsent, TagAbsent, TagAbsent)

TagEnv(lib, opens, tags) ==
    [lib |-> lib, opens |-> opens, tags |-> tags]

PipeTagEnvs ==
    { TagEnv(FALSE, "ok", NoTags),
      TagEnv(TRUE, "raises", NoTags),
      TagEnv(TRUE, "none", NoTags),
      TagEnv(TRUE, "ok", NoTags),
      TagEnv(TRUE, "ok", Tags(TagStr("Hey Jude"), TagAbsent, TagAbsent, TagAbsent)),
      TagEnv(TRUE, "ok", Tags(TagStr("Hey Jude"), TagStr("The Beatles"), TagAbsent, TagAbsent)),
      TagEnv(TRUE, "ok", Tags(TagAbsent, TagAbsent, TagList(<<"Hey Jude">>), TagList(<<"The Beatles">>))),
      TagEnv(TRUE, "ok", Tags(TagAbsent, TagAbsent, TagList(<<>>), TagAbsent)),
      TagEnv(TRUE, "ok", Tags(TagAbsent, TagAbsent, TagStr("Hey Jude"), TagList(<<>>))),
      TagEnv(TRUE, "ok", Tags(TagAbsent, TagAbsent, TagAbsent, TagStr("The Beatles"))) }

-----------------------------------------------------------------------------
(* The state machine of process_file *)

PreviousContent ==
    [opened |-> FALSE, lines |-> << "previous" >>]

\* process_file does not run
PipeIdle ==
    /\ pc = "idle"
    /\ audio = <<>>
    /\ min_silence_len = DefaultMinSilenceLen
    /\ keep_silence = DefaultKeepSilence
    /\ acoustid_key = PyNone
    /\ non_silent_ranges = <<>>
    /\ segments = <<>>
    /\ i = 0
    /\ queries = <<>>
    /\ temp_files = <<>>
    /\ disk = {}
    /\ unlinked = {}
    /\ j = 1
    /\ exc = "none"
    /\ log = <<>>
    /\ outFile = PreviousContent
    /\ ret = <<>>

\* no pure function is being applied
FnIdle ==
    /\ fnPc = "idle"
    /\ fnArg = <<>>
    /\ fnRes = <<>>

\* there is no second run
PairIdle ==
    /\ queriesB = <<>>
    /\ logB = <<>>
    /\ kDiff = 0

\* create_playlist_and_add_tracks does not run
PlIdle ==
    /\ ppc = "idle"
    /\ song_queries = <<>>
    /\ qi = 1
    /\ track_uris = <<>>
    /\ createCalls = <<>>
    /\ searchCalls = <<>>
    /\ addCalls = <<>>

\* the ShazamKit wrapper does not run
ShIdle ==
    /\ spc = "idle"
    /\ senv = [platform |-> "none", inputExists |-> FALSE,
               exeExists |-> FALSE, rebuild |-> FALSE]
    /\ schecks = <<>>
    /\ sbuilds = <<>>
    /\ sruns = <<>>
    /\ slines = <<>>
    /\ sOut = PreviousContent
    /\ rc = -1

\* nothing but process_file runs
InitExt ==
    /\ FnIdle
    /\ PairIdle
    /\ PlIdle
    /\ ShIdle

InitLocals ==
    /\ pc = "load"
    /\ non_silent_ranges = <<>>
    /\ segments = <<>>
    /\ i = 0
    /\ queries = <<>>
    /\ temp_files = <<>>
    /\ disk = {}
    /\ unlinked = {}
    /\ j = 1
    /\ exc = "none"
    /\ log = <<>>
    /\ outFile = PreviousContent
    /\ ret = <<>>

Init ==
    /\ audio \in PipeBuffers
    /\ min_silence_len = DefaultMinSilenceLen
    /\ keep_silence = DefaultKeepSilence
    /\ acoustid_key \in KeyChoices
    /\ InitLocals
    /\ InitExt

InitSeg ==
    /\ audio \in SegBuffers
    /\ min_silence_len \in MinSilenceChoices
    /\ keep_silence \in KeepSilenceChoices
    /\ acoustid_key = PyNone
    /\ InitLocals
    /\ InitExt

\* audio = AudioSegment.from_file(input_path)
Load ==
    /\ pc = "load"
    /\ UNCHANGED extVars
    /\ pc' = "split"
    /\ UNCHANGED << audio, min_silence_len, keep_silence, acoustid_key,
                    non_silent_ranges, segments, i, queries, temp_files,
                    disk, unlinked, j, exc, log, outFile, ret >>

\* AudioSegment.from_file raises: the exception leaves process_file
LoadFail ==
    /\ pc = "load"
    /\ UNCHANGED extVars
    /\ pc' = "failed"
    /\ exc' = "Loading"
    /\ UNCHANGED << audio, min_silence_len, keep_silence, acoustid_key,
                    non_silent_ranges, segments, i, queries, temp_files,
                    disk, unlinked, j, log, outFile, ret >>

\* split_on_silence: non_silent_ranges = detect_nonsilent(...); segments = []
SplitDetect ==
    /\ pc = "split"
    /\ UNCHANGED extVars
    /\ non_silent_ranges' = detect_nonsilent(audio, min_silence_len)
    /\ segments' = <<>>
    /\ pc' = "pad"
    /\ UNCHANGED << audio, min_silence_len, keep_silence, acoustid_key, i,
                    queries, temp_files, disk, unlinked, j, exc, log,
                    outFile, ret >>

\* split_on_silence: one iteration of "for start, end in non_silent_ranges"
SplitPad ==
    /\ pc = "pad"
    /\ UNCHANGED extVars
    /\ Len(segments) < Len(non_silent_ranges)
    /\ segments' = Append(segments,
                          PadRange(audio,
                                   non_silent_ranges[Len(segments) + 1],
                                   keep_silence))
    /\ UNCHANGED << pc, audio, min_silence_len, keep_silence, acoustid_key,
                    non_silent_ranges, i, queries, temp_files, disk,
                    unlinked, j, exc, log, outFile, ret >>

\* split_on_silence: return segments
SplitReturn ==
    /\ pc = "pad"
    /\ UNCHANGED extVars
    /\ Len(segments) = Len(non_silent_ranges)
    /\ pc' = "split_done"
    /\ UNCHANGED << audio, min_silence_len, keep_silence, acoustid_key,
                    non_silent_ranges, segments, i, queries, temp_files,
                    disk, unlinked, j, exc, log, outFile, ret >>

\* the segments are used as split_on_silence returned them
SegmentsAsSplit(segs, buf) ==
    segs

\* "if not segments: segments = [audio]"
SegmentsOrWhole(segs, buf) ==
    IF segs = <<>> THEN << <<0, BufLen(buf)>> >> ELSE segs

\* if not segments: segments = [audio]; queries = []; temp_files = []
Fallback ==
    /\ pc = "split_done"
    /\ UNCHANGED extVars
    /\ segments' = SegmentsOrWhole(segments, audio)
    /\ queries' = <<>>
    /\ temp_files' = <<>>
    /\ i' = 0
    /\ pc' = "loop"
    /\ UNCHANGED << audio, min_silence_len, keep_silence, acoustid_key,
                    non_silent_ranges, disk, unlinked, j, exc, log,
                    outFile, ret >>

\* the name of the temporary file of the segment with 0-based index k
TempName(k) ==
    k + 1

\* tempfile.NamedTemporaryFile raises before any file exists
TempFileFail ==
    /\ pc = "loop"
    /\ UNCHANGED extVars
    /\ i < Len(segments)
    /\ exc' = "ResolvingSegment"
    /\ j' = 1
    /\ pc' = "cleanup"
    /\ UNCHANGED << audio, min_silence_len, keep_silence, acoustid_key,
                    non_silent_ranges, segments, i, queries, temp_files,
                    disk, unlinked, log, outFile, ret >>

\* the temporary file is removed when it is closed (delete=True)
CloseDeletesTempFile(files, name) ==
    files

\* NamedTemporaryFile(suffix=".wav", delete=False) followed by tf.close():
\* the files on disk afterwards
CreateTempFile(files, name) ==
    files \cup {name}

\* tf = NamedTemporaryFile(delete=False); temp_files.append(tf.name);
\* tf.close(); seg.export(tf.name, format="wav"), which may raise
ExportSegment ==
    /\ pc = "loop"
    /\ UNCHANGED extVars
    /\ i < Len(segments)
    /\ disk' = CreateTempFile(disk, TempName(i))
    /\ temp_files' = Append(temp_files, TempName(i))
    /\ \E ok \in BOOLEAN :
          IF ok
          THEN /\ pc' = "resolve"
               /\ UNCHANGED << exc, j >>
          ELSE /\ exc' = "ResolvingSegment"
               /\ j' = 1
               /\ pc' = "cleanup"
    /\ UNCHANGED << audio, min_silence_len, keep_silence, acoustid_key,
                    non_silent_ranges, segments, i, queries, unlinked, log,
                    outFile, ret >>

\* a query already in the list is not added again
AppendQueryDedup(qs, q) ==
    IF \E k \in DOMAIN qs : qs[k] = q THEN qs ELSE Append(qs, q)

\* queries.append(q)
AppendQuery(qs, q) ==
    Append(qs, q)

\* the three tiers, q = make_query_from_metadata(meta, i), queries.append(q)
Resolve ==
    /\ pc = "resolve"
    /\ UNCHANGED extVars
    /\ \E fpEnv \in PipeFpEnvs, tagEnv \in PipeTagEnvs :
          LET r == ResolveSegment(acoustid_key, i, fpEnv, tagEnv) IN
          /\ queries' = AppendQuery(queries, r.q)
          /\ log' = Append(log, r)
    /\ i' = i + 1
    /\ pc' = "loop"
    /\ UNCHANGED << audio, min_silence_len, keep_silence, acoustid_key,
                    non_silent_ranges, segments, temp_files, disk, unlinked,
                    j, exc, outFile, ret >>

\* the segment loop is exhausted: enter the finally block
LoopEnd ==
    /\ pc = "loop"
    /\ UNCHANGED extVars
    /\ i = Len(segments)
    /\ j' = 1
    /\ pc' = "cleanup"
    /\ UNCHANGED << audio, min_silence_len, keep_silence, acoustid_key,
                    non_silent_ranges, segments, i, queries, temp_files,
                    disk, unlinked, exc, log, outFile, ret >>

\* a failing os.unlink ends the cleanup loop
CleanupIndexStopOnError(idx, ok, n) ==
    IF ok THEN idx + 1 ELSE n + 1

\* the next position of the cleanup loop: "except Exception: pass" is inside
\* the loop, so a failing os.unlink goes on with the next file
CleanupIndex(idx, ok, n) ==
    idx + 1

\* finally: one iteration of "for p in temp_files: try: os.unlink(p)
\* except Exception: pass"; os.unlink may fail and leave the file
CleanupStep ==
    /\ pc = "cleanup"
    /\ UNCHANGED extVars
    /\ j <= Len(temp_files)
    /\ unlinked' = unlinked \cup {temp_files[j]}
    /\ \E ok \in BOOLEAN :
          /\ disk' = IF ok THEN disk \ {temp_files[j]} ELSE disk
          /\ j' = CleanupIndex(j, ok, Len(temp_files))
    /\ UNCHANGED << pc, audio, min_silence_len, keep_silence, acoustid_key,
                    non_silent_ranges, segments, i, queries, temp_files,
                    exc, log, outFile, ret >>

\* the write step is entered even with an exception pending
AfterCleanupAlwaysWrite(e) ==
    "write"

\* where control goes after the finally block: a pending exception is
\* re-raised, otherwise the write step follows
AfterCleanup(e) ==
    IF e = "none" THEN "write" ELSE "failed"

\* end of the finally block: re-raise a pending exception or go on
CleanupEnd ==
    /\ pc = "cleanup"
    /\ UNCHANGED extVars
    /\ j > Len(temp_files)
    /\ pc' = AfterCleanup(exc)
    /\ UNCHANGED << audio, min_silence_len, keep_silence, acoustid_key,
                    non_silent_ranges, segments, i, queries, temp_files,
                    disk, unlinked, j, exc, log, outFile, ret >>

RECURSIVE WritableLines(_)
\* the lines fh.write(q + "\n") writes before q + "\n" raises on a query
\* that is not a string
WritableLines(qs) ==
    IF qs = <<>> \/ Head(qs).t # "str" THEN <<>>
    ELSE << Head(qs).v >> \o WritableLines(Tail(qs))

\* open(output_path, "w") raises: the file is untouched
WriteOpenFail ==
    /\ pc = "write"
    /\ UNCHANGED extVars
    /\ exc' = "Writing"
    /\ pc' = "failed"
    /\ UNCHANGED << audio, min_silence_len, keep_silence, acoustid_key,
                    non_silent_ranges, segments, i, queries, temp_files,
                    disk, unlinked, j, log, outFile, ret >>

\* with open(output_path, "w") as fh: for q in queries: fh.write(q + "\n");
\* return queries
Write ==
    /\ pc = "write"
    /\ UNCHANGED extVars
    /\ outFile' = [opened |-> TRUE, lines |-> WritableLines(queries)]
    /\ IF \A k \in DOMAIN queries : queries[k].t = "str"
       THEN /\ ret' = queries
            /\ pc' = "done"
            /\ UNCHANGED exc
       ELSE /\ exc' = "Writing"
            /\ pc' = "failed"
            /\ UNCHANGED ret
    /\ UNCHANGED << audio, min_silence_len, keep_silence, acoustid_key,
                    non_silent_ranges, segments, i, queries, temp_files,
                    disk, unlinked, j, log >>

NextSeg ==
    \/ Load
    \/ LoadFail
    \/ SplitDetect
    \/ SplitPad
    \/ SplitReturn
    \/ Fallback

Next ==
    \/ Load
    \/ LoadFail
    \/ SplitDetect
    \/ SplitPad
    \/ SplitReturn
    \/ Fallback
    \/ TempFileFail
    \/ ExportSegment
    \/ Resolve
    \/ LoopEnd
    \/ CleanupStep
    \/ CleanupEnd
    \/ WriteOpenFail
    \/ Write

Spec ==
    Init /\ [][Next]_vars

-----------------------------------------------------------------------------
(* create_playlist_and_add_tracks of src/src/create_playlist.py.  A string *)
(* is a sequence of characters.                                            *)

RECURSIVE LStrip(_)
LStrip(str) ==
    IF str = <<>> \/ Head(str) # " " THEN str ELSE LStrip(Tail(str))

RECURSIVE RStrip(_)
RStrip(str) ==
    IF str = <<>> \/ str[Len(str)] # " " THEN str
    ELSE RStrip(SubSeq(str, 1, Len(str) - 1))

\* str.strip()
Strip(str) ==
    RStrip(LStrip(str))

\* "if not q or not q.strip()"
IsSkipped(q) ==
    q = <<>> \/ Strip(q) = <<>>

\* the URI of the result of the given rank that a search for q returns
Uri(q, rank) ==
    [q |-> q, rank |-> rank]

\* result.get("tracks", {}).get("items", []) of a search for q giving n items
Items(q, n) ==
    [k \in 1..n |-> Uri(q, k)]

\* the last item is taken
LastResult(items) ==
    items[Len(items)]

\* track = items[0]; uri = track["uri"]
TopResult(items) ==
    items[1]

\* what sp.search does: it returns 0, 1 or 2 items, raises a
\* spotipy.exceptions.SpotifyException, or raises another exception
SearchOutcomes ==
    { [kind |-> "items", n |-> 0], [kind |-> "items", n |-> 1],
      [kind |-> "items", n |-> 2], [kind |-> "spotify_error", n |-> 0],
      [kind |-> "other_error", n |-> 0] }

SongQueryChoices ==
    { <<>>, << " " >>, << "a" >>, << "b" >>, << " ", "a" >> }

SongQueryLists ==
    UNION {[1..n -> SongQueryChoices] : n \in 0..MaxQueries}

InitPl ==
    /\ PipeIdle
    /\ FnIdle
    /\ PairIdle
    /\ ShIdle
    /\ ppc = "create"
    /\ song_queries \in SongQueryLists
    /\ qi = 1
    /\ track_uris = <<>>
    /\ createCalls = <<>>
    /\ searchCalls = <<>>
    /\ addCalls = <<>>

\* a failed creation is swallowed and the function goes on
AfterCreateSwallow(ok) ==
    "loop"

\* where control goes after sp.user_playlist_create: its exception is not
\* caught
AfterCreate(ok) ==
    IF ok THEN "loop" ELSE "raised_create"

\* playlist = sp.user_playlist_create(user=user_id, name=playlist_name,
\* public=True, description="Created by demo script"); track_uris = []
PlCreate ==
    /\ ppc = "create"
    /\ \E ok \in BOOLEAN :
          /\ createCalls' = Append(createCalls,
                                   [user |-> "user123",
                                    name |-> "Test Playlist",
                                    public |-> TRUE,
                                    description |-> "Created by demo script",
                                    ok |-> ok])
          /\ ppc' = AfterCreate(ok)
    /\ track_uris' = <<>>
    /\ UNCHANGED << pipeVars, fnVars, pairVars, shVars, song_queries, qi,
                    searchCalls, addCalls >>

\* an empty or whitespace-only query: continue
PlSkip ==
    /\ ppc = "loop"
    /\ qi <= Len(song_queries)
    /\ IsSkipped(song_queries[qi])
    /\ qi' = qi + 1
    /\ UNCHANGED << pipeVars, fnVars, pairVars, shVars, ppc, song_queries,
                    track_uris, createCalls, searchCalls, addCalls >>

\* try: result = sp.search(q, type="track", limit=1); items = ...;
\* if items: track_uris.append(items[0]["uri"])
\* except spotipy.exceptions.SpotifyException: print
PlSearch ==
    /\ ppc = "loop"
    /\ qi <= Len(song_queries)
    /\ ~IsSkipped(song_queries[qi])
    /\ \E o \in SearchOutcomes :
          LET q == song_queries[qi] IN
          /\ searchCalls' = Append(searchCalls, [q |-> q, outcome |-> o])
          /\ track_uris' = IF o.kind = "items" /\ o.n > 0
                            THEN Append(track_uris, TopResult(Items(q, o.n)))
                            ELSE track_uris
          /\ IF o.kind = "other_error"
             THEN ppc' = "raised_search" /\ UNCHANGED qi
             ELSE qi' = qi + 1 /\ UNCHANGED ppc
    /\ UNCHANGED << pipeVars, fnVars, pairVars, shVars, song_queries,
                    createCalls, addCalls >>

\* if track_uris: sp.playlist_add_items(playlist_id=playlist["id"],
\* items=track_uris); return playlist.  The call may raise.
PlAdd ==
    /\ ppc = "loop"
    /\ qi > Len(song_queries)
    /\ track_uris # <<>>
    /\ addCalls' = Append(addCalls, track_uris)
    /\ \E ok \in BOOLEAN :
          ppc' = IF ok THEN "done" ELSE "raised_add"
    /\ UNCHANGED << pipeVars, fnVars, pairVars, shVars, song_queries, qi,
                    track_uris, createCalls, searchCalls >>

\* else: print("No tracks found; playlist created but empty."); return
PlReturnEmpty ==
    /\ ppc = "loop"
    /\ qi > Len(song_queries)
    /\ track_uris = <<>>
    /\ ppc' = "done"
    /\ UNCHANGED << pipeVars, fnVars, pairVars, shVars, song_queries, qi,
                    track_uris, createCalls, searchCalls, addCalls >>

NextPl ==
    \/ PlCreate
    \/ PlSkip
    \/ PlSearch
    \/ PlAdd
    \/ PlReturnEmpty

SpecPl ==
    InitPl /\ [][NextPl]_vars

-----------------------------------------------------------------------------
(* main of src/src/fingerprint_shazam_queries.py *)

\* the position of the first line break of str, 0 when it has none
FirstNewline(str) ==
    IF \E k \in DOMAIN str : str[k] = "\n"
    THEN CHOOSE k \in DOMAIN str :
            /\ str[k] = "\n"
            /\ \A m \in 1..(k - 1) : str[m] # "\n"
    ELSE 0

RECURSIVE SplitLines(_)
\* str.splitlines()
SplitLines(str) ==
    IF str = <<>> THEN <<>>
    ELSE LET n == FirstNewline(str) IN
         IF n = 0 THEN << str >>
         ELSE << SubSeq(str, 1, n - 1) >>
                 \o SplitLines(SubSeq(str, n + 1, Len(str)))

NonEmpty(str) ==
    str # <<>>

\* lines = [l.strip() for l in proc.stdout.splitlines() if l.strip()]
ParseStdout(stdout) ==
    LET ls == SplitLines(stdout) IN
    SelectSeq([k \in DOMAIN ls |-> Strip(ls[k])], NonEmpty)

StdoutChars ==
    { "a", " ", "\n" }

StdoutChoices ==
    UNION {[1..n -> StdoutChars] : n \in 0..MaxStdout}

\* what subprocess.run([exe_path, input_path]) does: it raises, the CLI exits
\* with a code that is not 0, or it exits with 0 and its output
RunOutcomes ==
    { [kind |-> "raises", stdout |-> <<>>],
      [kind |-> "nonzero", stdout |-> <<>>] }
      \cup { [kind |-> "ok", stdout |-> o] : o \in StdoutChoices }

\* what build_shazam_cli does: swift is not in PATH, swift build fails, the
\* executable is not where it is expected, or the path is returned
BuildOutcomes ==
    { "no_swift", "build_fails", "no_exe", "ok" }

ShEnvs ==
    [platform : {"Darwin", "Linux", "Windows"}, inputExists : BOOLEAN,
     exeExists : BOOLEAN, rebuild : BOOLEAN]

InitSh ==
    /\ PipeIdle
    /\ FnIdle
    /\ PairIdle
    /\ PlIdle
    /\ spc = "platform"
    /\ senv \in ShEnvs
    /\ schecks = <<>>
    /\ sbuilds = <<>>
    /\ sruns = <<>>
    /\ slines = <<>>
    /\ sOut = PreviousContent
    /\ rc = -1

\* if platform.system() != "Darwin": return 3
ShPlatform ==
    /\ spc = "platform"
    /\ schecks' = Append(schecks, "platform")
    /\ IF senv.platform # "Darwin"
       THEN rc' = 3 /\ spc' = "returned"
       ELSE spc' = "input" /\ UNCHANGED rc
    /\ UNCHANGED << pipeVars, fnVars, pairVars, plVars, senv, sbuilds, sruns,
                    slines, sOut >>

\* if not os.path.exists(args.input): return 2
ShInput ==
    /\ spc = "input"
    /\ schecks' = Append(schecks, "input")
    /\ IF ~senv.inputExists
       THEN rc' = 2 /\ spc' = "returned"
       ELSE spc' = "build" /\ UNCHANGED rc
    /\ UNCHANGED << pipeVars, fnVars, pairVars, plVars, senv, sbuilds, sruns,
                    slines, sOut >>

\* the CLI is built only when the executable is absent
NeedsBuildAbsentOnly(rebuild, exists) ==
    ~exists

\* "if args.rebuild or not os.path.exists(exe_path)"
NeedsBuild(rebuild, exists) ==
    rebuild \/ ~exists

\* the conditions "args.rebuild or not os.path.exists(exe_path)" examines:
\* os.path.exists is not evaluated when --rebuild is given
BuildChecks(rebuild) ==
    IF rebuild THEN << "rebuild" >> ELSE << "rebuild", "exe" >>

\* try: exe_path = build_shazam_cli(os.getcwd())
\* except Exception: return 4
ShBuild ==
    /\ spc = "build"
    /\ NeedsBuild(senv.rebuild, senv.exeExists)
    /\ schecks' = schecks \o BuildChecks(senv.rebuild)
    /\ \E o \in BuildOutcomes :
          /\ sbuilds' = Append(sbuilds, o)
          /\ IF o = "ok"
             THEN spc' = "run" /\ UNCHANGED rc
             ELSE rc' = 4 /\ spc' = "returned"
    /\ UNCHANGED << pipeVars, fnVars, pairVars, plVars, senv, sruns, slines,
                    sOut >>

\* the executable is there and --rebuild is not given: nothing is built
ShLocate ==
    /\ spc = "build"
    /\ ~NeedsBuild(senv.rebuild, senv.exeExists)
    /\ schecks' = schecks \o BuildChecks(senv.rebuild)
    /\ spc' = "run"
    /\ UNCHANGED << pipeVars, fnVars, pairVars, plVars, senv, sbuilds, sruns,
                    slines, sOut, rc >>

\* try: lines = run_shazam_cli(exe_path, args.input)
\* except Exception: return 5
ShRun ==
    /\ spc = "run"
    /\ \E o \in RunOutcomes :
          /\ sruns' = Append(sruns, o)
          /\ IF o.kind = "ok"
             THEN /\ slines' = ParseStdout(o.stdout)
                  /\ spc' = "write"
                  /\ UNCHANGED rc
             ELSE /\ rc' = 5
                  /\ spc' = "returned"
                  /\ UNCHANGED slines
    /\ UNCHANGED << pipeVars, fnVars, pairVars, plVars, senv, schecks,
                    sbuilds, sOut >>

\* with open(args.output, "w") as fh: for l in lines: fh.write(l + "\n");
\* return 0.  An exception of open is not caught: it leaves main.
ShWrite ==
    /\ spc = "write"
    /\ \E ok \in BOOLEAN :
          IF ok
          THEN /\ sOut' = [opened |-> TRUE, lines |-> slines]
               /\ rc' = 0
               /\ spc' = "returned"
          ELSE /\ spc' = "raised"
               /\ UNCHANGED << sOut, rc >>
    /\ UNCHANGED << pipeVars, fnVars, pairVars, plVars, senv, schecks,
                    sbuilds, sruns, slines >>

NextSh ==
    \/ ShPlatform
    \/ ShInput
    \/ ShBuild
    \/ ShLocate
    \/ ShRun
    \/ ShWrite

SpecSh ==
    InitSh /\ [][NextSh]_vars

-----------------------------------------------------------------------------
(* Two runs of the segment loop over the same segmentation.  The second    *)
(* run meets the same environment as the first for every segment but       *)
(* kDiff, for which its fingerprint and tag outcomes are chosen freely.    *)
(* No export fails in either run; the temporary files are those of the     *)
(* first run.                                                              *)

\* the segments kDiff is drawn from (0-based)
DiffChoices ==
    0..2

InitPair ==
    /\ audio \in PipeBuffers
    /\ min_silence_len = DefaultMinSilenceLen
    /\ keep_silence = DefaultKeepSilence
    /\ acoustid_key \in KeyChoices
    /\ InitLocals
    /\ FnIdle
    /\ PlIdle
    /\ ShIdle
    /\ queriesB = <<>>
    /\ logB = <<>>
    /\ kDiff \in DiffChoices

\* one iteration of the segment loop in both runs: export, the three tiers,
\* queries.append(q)
PairResolve ==
    /\ pc = "loop"
    /\ i < Len(segments)
    /\ disk' = CreateTempFile(disk, TempName(i))
    /\ temp_files' = Append(temp_files, TempName(i))
    /\ LET Outcomes == {ResolveSegment(acoustid_key, i, fpEnv, tagEnv) :
                            fpEnv \in PipeFpEnvs, tagEnv \in PipeTagEnvs}
       IN  \E r \in Outcomes :
           \E rB \in (IF i = kDiff THEN Outcomes ELSE {r}) :
              /\ queries' = AppendQuery(queries, r.q)
              /\ log' = Append(log, r)
              /\ queriesB' = AppendQuery(queriesB, rB.q)
              /\ logB' = Append(logB, rB)
    /\ i' = i + 1
    /\ UNCHANGED << pc, audio, min_silence_len, keep_silence, acoustid_key,
                    non_silent_ranges, segments, unlinked, j, exc, outFile,
                    ret, kDiff, fnVars, plVars, shVars >>

\* the segment loop is exhausted in both runs
PairEnd ==
    /\ pc = "loop"
    /\ i = Len(segments)
    /\ pc' = "paired"
    /\ UNCHANGED << audio, min_silence_len, keep_silence, acoustid_key,
                    non_silent_ranges, segments, i, queries, temp_files,
                    disk, unlinked, j, exc, log, outFile, ret, extVars >>

NextPair ==
    \/ Load
    \/ LoadFail
    \/ SplitDetect
    \/ SplitPad
    \/ SplitReturn
    \/ Fallback
    \/ PairResolve
    \/ PairEnd

SpecPair ==
    InitPair /\ [][NextPair]_vars

-----------------------------------------------------------------------------
(* fingerprint_and_lookup as a function of the response of the service *)

FpTitles ==
    {PyNone, PyStr(""), PyStr("Imagine"), PyStr("Yesterday")}

\* the names of the listed artists of a recording
FpArtistLists ==
    { <<>>, << PyStr("John Lennon") >>, << PyNone >>,
      << PyStr("Paul McCartney"), PyStr("John Lennon") >> }

FpRecs ==
    {Rec(t, a) : t \in FpTitles, a \in FpArtistLists}

\* a second recording of a result
OtherRec ==
    Rec(PyStr("Let It Be"), << PyStr("The Beatles") >>)

\* results with no, one or two recordings
FpResults ==
    {Result(<<>>)} \cup {Result(<< r >>) : r \in FpRecs}
                   \cup {Result(<< r, OtherRec >>) : r \in FpRecs}

FpItemLists ==
    UNION {[1..n -> FpResults] : n \in 0..MaxResults}

\* well-formed responses: a bare list or a (status, list) pair
FpResponses ==
    {ListResponse(l) : l \in FpItemLists}
        \cup {TupleResponse(2, l) : l \in FpItemLists}

InitFp ==
    /\ PipeIdle
    /\ PairIdle
    /\ PlIdle
    /\ ShIdle
    /\ fnPc = "call"
    /\ fnArg \in FpResponses
    /\ fnRes = NoMeta

\* meta = fingerprint_and_lookup(tf.name, acoustid_key) with a key, the
\* library present and both calls returning
ApplyLookup ==
    /\ fnPc = "call"
    /\ fnRes' = fingerprint_and_lookup(FpEnv(TRUE, FALSE, FALSE, fnArg),
                                       PyStr("KEY")).meta
    /\ fnPc' = "done"
    /\ UNCHANGED << pipeVars, fnArg, pairVars, plVars, shVars >>

NextFp ==
    ApplyLookup

SpecFp ==
    InitFp /\ [][NextFp]_vars

-----------------------------------------------------------------------------
(* make_query_from_metadata as a function of its arguments *)

QueryTitles ==
    {"", "Hey Jude", "Imagine"}

QueryArtists ==
    {"", "John Lennon", "The Beatles"}

\* the candidates of type Optional[Tuple[str, str]]
MetaInputs ==
    {NoMeta} \cup {Meta(PyStr(t), PyStr(a)) : t \in QueryTitles,
                                              a \in QueryArtists}

InitQuery ==
    /\ PipeIdle
    /\ PairIdle
    /\ PlIdle
    /\ ShIdle
    /\ fnPc = "call"
    /\ fnArg \in [meta : MetaInputs, index : 0..MaxIndex]
    /\ fnRes = PyNone

\* q = make_query_from_metadata(meta, i)
ApplyMakeQuery ==
    /\ fnPc = "call"
    /\ fnRes' = make_query_from_metadata(fnArg.meta, fnArg.index)
    /\ fnPc' = "done"
    /\ UNCHANGED << pipeVars, fnArg, pairVars, plVars, shVars >>

NextQuery ==
    ApplyMakeQuery

SpecQuery ==
    InitQuery /\ [][NextQuery]_vars

SpecSeg ==
    InitSeg /\ [][NextSeg]_vars

-----------------------------------------------------------------------------
(* Properties *)

Range(f) ==
    {f[k] : k \in DOMAIN f}

\* process_file has left the segment loop
LoopLeft ==
    pc \in {"cleanup", "write", "done", "failed"} /\ exc # "Loading"

\* C1: when process_file returns, the returned list and the lines of the
\* output file are the per-segment queries in segment order: one entry per
\* segment, entry k made from the resolution of segment k, duplicates kept.
C1_OrderedOutput ==
    pc = "done" =>
        /\ Len(queries) = Len(segments)
        /\ ret = queries
        /\ \A k \in DOMAIN queries :
              /\ log[k].index = k - 1
              /\ queries[k] = make_query_from_metadata(log[k].meta, k - 1)
        /\ outFile.opened
        /\ outFile.lines = [k \in 1..Len(segments) |-> queries[k].v]

\* C1 witness: a completed run over three segments whose first two queries
\* are the same fingerprint result and whose third is the placeholder
C1_Witness ==
    /\ pc = "done"
    /\ Len(segments) = 3
    /\ outFile.lines = << "Imagine - John Lennon", "Imagine - John Lennon",
                          "Unknown Track 3" >>

\* C2 (as claimed): an error raised while a segment is processed never
\* leaves the segment loop: the loop is only left with one query per
\* segment and without a pending segment-stage exception.
C2_OneBadSegmentNeverAborts ==
    LoopLeft => (exc # "ResolvingSegment" /\ Len(queries) = Len(segments))

\* C3 (as claimed): every query the resolver yields is a non-empty string,
\* and it is the placeholder when both earlier tiers yield nothing.
C3_ResolverTotal ==
    \A k \in DOMAIN queries :
        /\ queries[k].t = "str"
        /\ queries[k].v # ""
        /\ (~log[k].fpMeta.some /\ ~log[k].tagMeta.some)
              => queries[k] = Placeholder(k - 1)

C5_AllTempFilesDeleted ==
    (pc \in {"write", "done", "failed"} /\ exc # "Loading") =>
        /\ unlinked = Range(temp_files)
        /\ disk \subseteq unlinked

\* C5 witness: the export of the second segment raised, the deletion of the
\* first file failed and the second file was deleted all the same
C5_Witness ==
    /\ pc = "failed"
    /\ exc = "ResolvingSegment"
    /\ temp_files = << TempName(0), TempName(1) >>
    /\ unlinked = {TempName(0), TempName(1)}
    /\ disk = {TempName(0)}

\* C6: the tag tier is consulted only when the fingerprint tier gave no
\* candidate, the placeholder is produced only when both tiers gave none,
\* and a fingerprint candidate is never replaced by tag data.
C6_TierOrder ==
    \A k \in DOMAIN log :
        /\ log[k].tagsRead => ~log[k].fpMeta.some
        /\ log[k].q = Placeholder(k - 1)
              => (~log[k].fpMeta.some /\ ~log[k].tagMeta.some)
        /\ log[k].fpMeta.some => log[k].meta = log[k].fpMeta

\* C6 witness: the first segment is resolved by the fingerprint tier without
\* reading the tags, the second by the placeholder
C6_Witness ==
    /\ Len(log) >= 2
    /\ log[1].fpMeta.some /\ ~log[1].tagsRead
    /\ log[1].q = PyStr("Imagine - John Lennon")
    /\ log[2].q = Placeholder(1)

\* C7: with no credential (key None or empty) neither the fingerprint
\* computation nor the lookup is invoked for any segment, and the first
\* segment goes directly to the tag tier.
C7_NoKeyNoLookup ==
    ~Truthy(acoustid_key) =>
        \A k \in DOMAIN log :
            /\ ~log[k].fingerprinted
            /\ ~log[k].lookedUp
            /\ (k = 1 => log[k].tagsRead)

\* C7 witness: a run with the empty key has resolved three segments
C7_Witness ==
    acoustid_key = PyStr("") /\ Len(log) = 3 /\ pc = "done"

\* C8 (as claimed): for every min_silence_len and keep_silence the emitted
\* ranges are disjoint and ordered by start.
C8_Disjoint ==
    pc \in {"pad", "split_done"} =>
        \A k \in 1..(Len(segments) - 1) :
            /\ segments[k][2] <= segments[k + 1][1]
            /\ segments[k][1] < segments[k + 1][1]

\* C9: the range emitted for the detected span [s, e) of a buffer of length
\* T is [max(0, s - keep_silence), min(T, e + keep_silence)), hence
\* 0 <= start < end <= T; a span starting at 50 with keep_silence 300 starts
\* at 0 and the 10000 ms example yields [0, 4300) and [5200, 10000).
C9_PadClamp ==
    pc \in {"pad", "split_done"} =>
        /\ \A k \in DOMAIN segments :
              LET s == non_silent_ranges[k][1]
                  e == non_silent_ranges[k][2]
                  T == BufLen(audio)
              IN  /\ segments[k][1] = (IF s - keep_silence < 0 THEN 0
                                       ELSE s - keep_silence)
                  /\ segments[k][2] = (IF e + keep_silence > T THEN T
                                       ELSE e + keep_silence)
                  /\ 0 <= segments[k][1]
                  /\ segments[k][1] < segments[k][2]
                  /\ segments[k][2] <= T
                  /\ (s = 50 /\ keep_silence = 300) => segments[k][1] = 0
        /\ ( /\ pc = "split_done"
             /\ audio = ScenarioA
             /\ min_silence_len = 1200
             /\ keep_silence = 300 )
              => segments = << <<0, 4300>>, <<5200, 10000>> >>

\* C9 witness: the 10000 ms example has been split
C9_Witness ==
    /\ pc = "split_done"
    /\ audio = ScenarioA
    /\ min_silence_len = 1200
    /\ keep_silence = 300
    /\ non_silent_ranges = << <<0, 4000>>, <<5500, 10000>> >>
    /\ Len(segments) = 2

\* the buffer has no silent stretch of at least min_len ms
NoSilentGap(buf, min_len) ==
    \A a \in DOMAIN buf : \A b \in a..Len(buf) :
        (\A k \in a..b : ~buf[k].loud)
            => BufLen(SubSeq(buf, a, b)) < min_len

\* C10: once segmentation is over there is at least one segment: the whole
\* buffer when no non-silent span was detected, and exactly the range
\* [0, T) when the buffer has no silent gap of at least min_silence_len;
\* a completed run has written at least one query.
C10_NeverZeroSegments ==
    /\ pc \in {"loop", "resolve", "cleanup", "write", "done"} =>
          /\ Len(segments) >= 1
          /\ non_silent_ranges = <<>>
                => segments = << <<0, BufLen(audio)>> >>
          /\ NoSilentGap(audio, min_silence_len)
                => segments = << <<0, BufLen(audio)>> >>
    /\ pc = "done" => (Len(queries) >= 1 /\ Len(outFile.lines) >= 1)

\* C10 witness: a fully silent buffer was processed as one segment and its
\* query written
C10_Witness ==
    /\ pc = "done"
    /\ non_silent_ranges = <<>>
    /\ segments = << <<0, BufLen(audio)>> >>
    /\ Len(outFile.lines) = 1

\* the placeholder queries, by 1-based display number
UnknownTrackNames ==
    << "Unknown Track 1", "Unknown Track 2", "Unknown Track 3",
       "Unknown Track 4", "Unknown Track 5", "Unknown Track 6",
       "Unknown Track 7", "Unknown Track 8", "Unknown Track 9",
       "Unknown Track 10", "Unknown Track 11", "Unknown Track 12",
       "Unknown Track 13", "Unknown Track 14" >>

\* C11: make_query_from_metadata gives "{title} - {artist}" for a candidate
\* with non-empty title and artist, the title alone when the artist is
\* empty ("Hey Jude"), and "Unknown Track {index+1}" for no candidate or an
\* empty title (index 2 gives "Unknown Track 3").
C11_QueryFormat ==
    fnPc = "done" =>
        LET m == fnArg.meta
            n == fnArg.index
        IN  /\ (m.some /\ m.title.v # "" /\ m.artist.v # "")
                  => fnRes = [t |-> "str",
                              v |-> m.title.v \o " - " \o m.artist.v]
            /\ (m.some /\ m.title.v # "" /\ m.artist.v = "")
                  => fnRes = [t |-> "str", v |-> m.title.v]
            /\ (~m.some \/ m.title.v = "")
                  => fnRes = [t |-> "str", v |-> UnknownTrackNames[n + 1]]
            /\ (m = Meta(PyStr("Hey Jude"), PyStr("")))
                  => fnRes.v = "Hey Jude"
            /\ (~m.some /\ n = 2) => fnRes.v = "Unknown Track 3"

\* C11 witness: no candidate at index 2 has given "Unknown Track 3"
C11_Witness ==
    /\ fnPc = "done"
    /\ fnArg = [meta |-> NoMeta, index |-> 2]
    /\ fnRes = PyStr("Unknown Track 3")

\* the position of the first result that has a recording, 0 when none has
FirstRecorded(items) ==
    LET S == {k \in DOMAIN items : items[k].recordings # <<>>}
    IN  IF S = {} THEN 0 ELSE CHOOSE k \in S : \A m \in S : k <= m

\* the position of the first result whose first recording has a non-empty
\* title, 0 when none has
FirstTitled(items) ==
    LET S == {k \in DOMAIN items :
                 /\ items[k].recordings # <<>>
                 /\ items[k].recordings[1].title.t = "str"
                 /\ items[k].recordings[1].title.v # ""}
    IN  IF S = {} THEN 0 ELSE CHOOSE k \in S : \A m \in S : k <= m

\* title of the first recording of r and name of its first listed artist
CandidateOf(r) ==
    LET rec == r.recordings[1] IN
    [some |-> TRUE, title |-> rec.title,
     artist |-> IF rec.artists = <<>> \/ rec.artists[1].t = "none"
                THEN [t |-> "str", v |-> ""] ELSE rec.artists[1]]

\* C12 (as claimed): the candidate comes from the first result that has a
\* recording; a later result is never used once an earlier one has a
\* recording, and no recording anywhere gives no candidate.
C12_FirstRecordedResult ==
    fnPc = "done" =>
        LET k == FirstRecorded(fnArg.items) IN
        IF k = 0 THEN ~fnRes.some
        ELSE fnRes.some => fnRes = CandidateOf(fnArg.items[k])

\* C12 (amended): the candidate comes from the first result whose first
\* recording has a non-empty title (title of that recording, name of its
\* first listed artist or ""); results without a recording or with an
\* untitled first recording are skipped; when there is no such result there
\* is no candidate; a (status, list) pair gives what the bare list gives.
C12_FirstTitledResult ==
    fnPc = "done" =>
        LET k == FirstTitled(fnArg.items) IN
        IF k = 0 THEN ~fnRes.some
        ELSE fnRes = CandidateOf(fnArg.items[k])

\* C12 witness: in a (status, list) pair the first result has an untitled
\* recording and the candidate is taken from the second result
C12_Witness ==
    /\ fnPc = "done"
    /\ fnArg = TupleResponse(2, << Result(<< Rec(PyStr(""), <<>>) >>),
                                  Result(<< Rec(PyStr("Yesterday"), <<>>) >>) >>)
    /\ fnRes = Meta(PyStr("Yesterday"), PyStr(""))

C14_WriteAfterAllResolved ==
    /\ outFile.opened =>
          /\ Len(segments) >= 1
          /\ Len(queries) = Len(segments)
          /\ Len(log) = Len(segments)
          /\ pc \in {"done", "failed"}
          /\ exc \in {"none", "Writing"}
    /\ ~outFile.opened => outFile = PreviousContent
    /\ (pc = "failed" /\ exc \in {"Loading", "ResolvingSegment"})
          => outFile = PreviousContent
    /\ pc = "write" => (Len(queries) = Len(segments) /\ exc = "none")

\* C14 witness: the export of the second segment failed after the first
\* segment was resolved, and the output file still has its previous content
C14_Witness ==
    /\ pc = "failed"
    /\ exc = "ResolvingSegment"
    /\ Len(queries) = 1
    /\ Len(segments) >= 2
    /\ outFile = PreviousContent

RECURSIVE ExpectedUris(_)
\* the first item of every search that returned at least one, in call order
ExpectedUris(calls) ==
    IF calls = <<>> THEN <<>>
    ELSE (IF Head(calls).outcome.kind = "items" /\ Head(calls).outcome.n >= 1
          THEN << [q |-> Head(calls).q, rank |-> 1] >> ELSE <<>>)
             \o ExpectedUris(Tail(calls))

\* the query has a character that is not a blank
NonBlank(q) ==
    \E k \in DOMAIN q : q[k] # " "

C17_NothingDropped ==
    outFile.opened => Len(outFile.lines) = Len(segments)

\* the consumer's half of C17: create_playlist_and_add_tracks searches for
\* no empty or whitespace-only query and adds no track for one, and it
\* searches for every other query it has passed
C17_ConsumerSkipsBlank ==
    /\ \A k \in DOMAIN searchCalls : NonBlank(searchCalls[k].q)
    /\ \A k \in DOMAIN track_uris : NonBlank(track_uris[k].q)
    /\ ppc \in {"loop", "done", "raised_add"} =>
          [k \in DOMAIN searchCalls |-> searchCalls[k].q]
             = SelectSeq(SubSeq(song_queries, 1, qi - 1), NonBlank)

\* C18: read_tags is called only for the first segment and only with the
\* path of the source file; a later segment whose fingerprint tier yields
\* nothing gets the placeholder "Unknown Track {index+1}" without a tag
\* read, whatever tags the source file carries.
C18_TagsFirstSegmentOnly ==
    \A k \in DOMAIN log :
        /\ log[k].tagsRead =>
              /\ log[k].index = 0
              /\ log[k].tagPath = "input_path"
              /\ log[k].tagMeta.some = log[k].sourceTagged
        /\ ~log[k].tagsRead =>
              /\ log[k].tagPath = "none"
              /\ ~log[k].tagMeta.some
        /\ (log[k].index >= 1 /\ ~log[k].fpMeta.some) =>
              /\ ~log[k].tagsRead
              /\ log[k].q = PyStr("Unknown Track " \o IntToStr(log[k].index + 1))
              /\ k <= Len(queries) => queries[k] = log[k].q

\* C18 witness: the source file carries tags, the first segment takes its
\* query from them and the second, with no fingerprint result, is
\* "Unknown Track 2"
C18_Witness ==
    /\ Len(log) >= 2
    /\ log[1].tagsRead
    /\ log[1].tagPath = "input_path"
    /\ log[1].q = PyStr("Hey Jude - The Beatles")
    /\ log[2].sourceTagged
    /\ ~log[2].fpMeta.some
    /\ ~log[2].tagsRead
    /\ queries[2] = PyStr("Unknown Track 2")

\* C19 (as claimed): a search that raises for one query never ends
\* create_playlist_and_add_tracks: every later query is still searched and
\* the URIs found are added, so the function never stops with found URIs
\* that were not added to the created playlist.
C19_SearchErrorNeverAborts ==
    /\ ppc # "raised_search"
    /\ \A k \in DOMAIN searchCalls :
          searchCalls[k].outcome.kind # "items" =>
             (ppc = "loop" /\ qi > k) \/ ppc \in {"done", "raised_add"}
    /\ (ppc \notin {"create", "loop"} /\ track_uris # <<>>) =>
          addCalls = << track_uris >>

\* a character that is neither a blank nor a line break
IsInk(c) ==
    c \notin {" ", "\n"}

RECURSIVE Join(_)
Join(strs) ==
    IF strs = <<>> THEN <<>> ELSE Head(strs) \o Join(Tail(strs))

\* the number of lines of stdout that are not blank
NonBlankLineCount(stdout) ==
    Cardinality({ k \in DOMAIN stdout :
                    /\ IsInk(stdout[k])
                    /\ \A m \in 1..(k - 1) :
                          IsInk(stdout[m]) =>
                             \E n \in (m + 1)..(k - 1) : stdout[n] = "\n" })

\* the code main returns for the first stage that fails
ExpectedCode ==
    IF senv.platform # "Darwin" THEN 3
    ELSE IF ~senv.inputExists THEN 2
    ELSE IF \E k \in DOMAIN sbuilds : sbuilds[k] # "ok" THEN 4
    ELSE IF \E k \in DOMAIN sruns : sruns[k].kind # "ok" THEN 5
    ELSE 0

\* C20: main of the ShazamKit wrapper examines platform, input file, build
\* and run in this order and returns 3, 2, 4 or 5 for the first that fails
\* and 0 when none does; the output file is written, with the non-blank
\* stripped lines of the CLI output, only on the path that returns 0; the
\* CLI is built only when --rebuild is given or the executable is absent.
C20_ExitCodes ==
    /\ spc = "returned" <=> rc # -1
    /\ spc = "returned" => rc = ExpectedCode
    /\ rc = 3 => schecks = << "platform" >> /\ sbuilds = <<>> /\ sruns = <<>>
    /\ rc = 2 => schecks = << "platform", "input" >> /\ sbuilds = <<>>
                    /\ sruns = <<>>
    /\ rc = 4 => Len(sbuilds) = 1 /\ sruns = <<>>
    /\ rc = 5 => Len(sruns) = 1
    /\ spc = "raised" => ExpectedCode = 0 /\ Len(sruns) = 1
    /\ sruns # <<>> => \A k \in DOMAIN sbuilds : sbuilds[k] = "ok"
    /\ sOut.opened <=> rc = 0
    /\ ~sOut.opened => sOut = PreviousContent
    /\ sOut.opened =>
          /\ sOut.lines = slines
          /\ Len(sOut.lines) = NonBlankLineCount(sruns[1].stdout)
          /\ SelectSeq(Join(sOut.lines), IsInk)
                = SelectSeq(sruns[1].stdout, IsInk)
          /\ \A k \in DOMAIN sOut.lines :
                LET l == sOut.lines[k] IN
                /\ l # <<>>
                /\ Head(l) # " " /\ l[Len(l)] # " "
                /\ \A m \in DOMAIN l : l[m] # "\n"
    /\ Len(sbuilds) <= 1
    /\ sbuilds # <<>> => senv.rebuild \/ ~senv.exeExists
    /\ (spc \in {"run", "write", "raised"} \/ rc \in {4, 5, 0}) =>
          ((senv.rebuild \/ ~senv.exeExists) => sbuilds # <<>>)

\* C20 witness: on macOS with the executable present and --rebuild given the
\* CLI was rebuilt and run, and its two non-blank lines were written
C20_Witness ==
    /\ rc = 0
    /\ senv.rebuild
    /\ senv.exeExists
    /\ sbuilds = << "ok" >>
    /\ sruns[1].stdout = << " ", "a", "\n", "a" >>
    /\ sOut = [opened |-> TRUE, lines |-> << << "a" >>, << "a" >> >>]

====
